---- MODULE Spec2Model ----
(***************************************************************************)
(* Meeting & calendar service (q2_content_analysis_mcp/src/server.py).     *)
(*                                                                         *)
(* The process holds one store, data = {"meetings": [...], "users": [...]},*)
(* loaded once from a JSON fixture.  Every endpoint is a handler that      *)
(* reads the store and returns a response; create_meeting also appends.    *)
(*                                                                         *)
(* Conventions of the model                                                *)
(*  - an instant is an integer number of minutes since 00:00 UTC of day 0; *)
(*  - a datetime is [wall, off, aware]: wall-clock minutes, UTC offset in  *)
(*    minutes, and whether it carries a tzinfo; its instant is wall - off; *)
(*  - a timestamp text is [k, wall, off, aware] with k one of              *)
(*      "none"  (None)            "empty" ("")                             *)
(*      "iso"   (accepted by datetime.fromisoformat)                       *)
(*      "isoz"  (ISO text ending in Z)                                     *)
(*      "bad"   (text every parser rejects);                               *)
(*  - titles, agendas and topics are sequences of one-character strings,   *)
(*    so that len(), lower() and `in` are computed as Python computes them;*)
(*  - a stored effectiveness_score is kept in tenths (85 is 8.5) and a     *)
(*    computed score in hundredths (800 is 8.0): the weights are multiples *)
(*    of 0.05 and the sub-scores integers, so the arithmetic is exact and  *)
(*    round(final_score, 2) changes nothing;                               *)
(*  - one handler runs to completion as one action; FastAPI runs these     *)
(*    `def` handlers on a thread pool, and SpecInterleaved splits          *)
(*    create_meeting at its reads and its write of the store;              *)
(*  - the clock `now` is read once per handler and advances between them.  *)
(***************************************************************************)
EXTENDS Integers, Sequences, FiniteSets, TLC

VARIABLES
    meetings,   \* data["meetings"]
    users,      \* data["users"]
    now,        \* the wall clock, in minutes
    resp,       \* the response of the last call
    call,       \* the last call: its endpoint, its request and the clock it read
    loaded,     \* how many meetings load_data() read from the fixture
    inflight    \* the create_meeting calls run step by step, with their locals

vars == <<meetings, users, now, resp, call, loaded, inflight>>

(***************************************************************************)
(* Bounds of the model.                                                    *)
(***************************************************************************)
MaxMeetings == 3

MaxTicks == 1

(***************************************************************************)
(* Generic helpers.                                                        *)
(***************************************************************************)
Range(s) == {s[i] : i \in 1..Len(s)}

Min2(a, b) == IF a <= b THEN a ELSE b

Max2(a, b) == IF a >= b THEN a ELSE b

\* dict.get(key, default)
Get(d, key, default) == IF key \in DOMAIN d THEN d[key] ELSE default

\* minutes in an hour: timedelta(hours=1)
HOUR == 60

DAY == 24 * 60

At(day, h, m) == day * DAY + h * HOUR + m

(***************************************************************************)
(* Timestamp texts and datetimes.                                          *)
(***************************************************************************)
NoneText == [k |-> "none"]

EmptyText == [k |-> "empty"]

BadText == [k |-> "bad"]

\* naive ISO text, e.g. "2024-01-01T09:00:00"
Naive(w) == [k |-> "iso", wall |-> w, off |-> 0, aware |-> FALSE]

\* ISO text with an explicit offset, e.g. "2024-01-01T10:00:00+01:00"
Aware(w, o) == [k |-> "iso", wall |-> w, off |-> o, aware |-> TRUE]

\* ISO text ending in Z
Zulu(w) == [k |-> "isoz", wall |-> w, off |-> 0, aware |-> TRUE]

\* `not dt_str`
Falsy(text) == text.k \in {"none", "empty"}

\* datetime.now(pytz.UTC)
NowUtc(clock) == [wall |-> clock, off |-> 0, aware |-> TRUE]

\* datetime.now(): naive local time (the server's zone is UTC in the model)
NowNaive(clock) == [wall |-> clock, off |-> 0, aware |-> FALSE]

\* dt + timedelta(minutes = d)
AddMinutes(dt, d) == [dt EXCEPT !.wall = dt.wall + d]

\* dt.isoformat()
IsoFormat(dt) == [k |-> "iso", wall |-> dt.wall, off |-> dt.off, aware |-> dt.aware]

\* The point on the UTC time line that comparisons and subtractions use.
Instant(dt) == dt.wall - dt.off

\* dt.hour
HourOf(dt) == (dt.wall % DAY) \div HOUR

\* dt.date(), as a day number
DateOf(dt) == dt.wall \div DAY

\* datetime.fromisoformat on a text it accepts (for "isoz", after the
\* 'Z' -> '+00:00' replacement where the direct parse rejects the Z)
FromIsoFormat(text) ==
    [wall |-> text.wall,
     off |-> IF text.k = "isoz" \/ ~text.aware THEN 0 ELSE text.off,
     aware |-> text.aware]

AssumeUtcMutKeep(dt) == dt

\* if dt.tzinfo is None: dt = dt.replace(tzinfo=pytz.UTC)
AssumeUtc(dt) == IF dt.aware THEN dt ELSE [dt EXCEPT !.off = 0, !.aware = TRUE]

\* parse_datetime
ParseDatetime(text, clock) ==
    IF Falsy(text) THEN NowUtc(clock)
    ELSE IF text.k \in {"iso", "isoz"}
      \* fromisoformat succeeds; a naive result gets tzinfo = UTC
      THEN AssumeUtc(FromIsoFormat(text))
    \* every attempt raised: current time in UTC
    ELSE NowUtc(clock)

StartOf(m, clock) == Instant(ParseDatetime(m.start_time, clock))

EndOf(m, clock) == Instant(ParseDatetime(m.end_time, clock))

(***************************************************************************)
(* Store helpers.                                                          *)
(***************************************************************************)
\* get_user_meetings
get_user_meetings(store, user_id) ==
    SelectSeq(store, LAMBDA m : user_id \in Range(m.participants))

RECURSIVE FirstUser(_, _, _)
FirstUser(us, user_id, i) ==
    IF i > Len(us) THEN [found |-> FALSE]
    ELSE IF us[i].user_id = user_id THEN [found |-> TRUE, user |-> us[i]]
    ELSE FirstUser(us, user_id, i + 1)

\* get_user_preferences
get_user_preferences(us, user_id) == FirstUser(us, user_id, 1)

check_time_conflict_inclusive(m1, m2, clock) ==
    /\ StartOf(m1, clock) <= EndOf(m2, clock)
    /\ StartOf(m2, clock) <= EndOf(m1, clock)

check_time_conflict_one_sided(m1, m2, clock) ==
    /\ StartOf(m1, clock) < EndOf(m2, clock)
    /\ StartOf(m2, clock) < EndOf(m2, clock)

\* check_time_conflict
check_time_conflict(m1, m2, clock) ==
    /\ StartOf(m1, clock) < EndOf(m2, clock)
    /\ StartOf(m2, clock) < EndOf(m1, clock)

(***************************************************************************)
(* Text helpers.                                                           *)
(***************************************************************************)
UpperAlpha ==
    <<"A","B","C","D","E","F","G","H","I","J","K","L","M",
      "N","O","P","Q","R","S","T","U","V","W","X","Y","Z">>

LowerAlpha ==
    <<"a","b","c","d","e","f","g","h","i","j","k","l","m",
      "n","o","p","q","r","s","t","u","v","w","x","y","z">>

LowerChar(c) ==
    IF c \in Range(UpperAlpha)
      THEN LowerAlpha[CHOOSE i \in 1..26 : UpperAlpha[i] = c]
      ELSE c

\* str.lower()
Lower(s) == [i \in 1..Len(s) |-> LowerChar(s[i])]

\* needle in hay
Contains(hay, needle) ==
    \E i \in 0..(Len(hay) - Len(needle)) :
        \A j \in 1..Len(needle) : hay[i + j] = needle[j]

\* "Meeting agenda for "
AgendaPrefix ==
    <<"M","e","e","t","i","n","g"," ","a","g","e","n","d","a"," ","f","o","r"," ">>

\* f"m{n}"
MeetingId(n) == "m" \o ToString(n)

\* what `call` records of a request
Called(op, req, clock) == [op |-> op, req |-> req, at |-> clock]

(***************************************************************************)
(* create_meeting                                                          *)
(***************************************************************************)
\* the conflict records of one participant, in store order
ConflictsOf(store, new_meeting, participant, clock) ==
    LET hits == SelectSeq(get_user_meetings(store, participant),
                          LAMBDA m : check_time_conflict(new_meeting, m, clock))
    IN  [i \in 1..Len(hits) |->
            [participant |-> participant,
             conflicting_meeting |-> hits[i].title,
             conflict_time |-> hits[i].start_time]]

CollectConflictsMutNone(store, new_meeting, participants, i, clock) == <<>>

RECURSIVE CollectConflicts(_, _, _, _, _)
CollectConflicts(store, new_meeting, participants, i, clock) ==
    IF i > Len(participants) THEN <<>>
    ELSE ConflictsOf(store, new_meeting, participants[i], clock)
         \o CollectConflicts(store, new_meeting, participants, i + 1, clock)

NextMeetingIdMutNoPlusOne(store) == MeetingId(Len(store))

NextMeetingId(store) == MeetingId(Len(store) + 1)

NewMeeting(store, req, clock) ==
    LET current_time == NowUtc(clock)
        start_time == IF Falsy(req.start_time) THEN IsoFormat(current_time)
                      ELSE req.start_time
        end_time == IF Falsy(req.start_time)
                      THEN IsoFormat(AddMinutes(current_time, req.duration))
                      ELSE IsoFormat(AddMinutes(ParseDatetime(req.start_time, clock),
                                                req.duration))
    IN  [id |-> NextMeetingId(store),
         title |-> req.title,
         participants |-> req.participants,
         start_time |-> start_time,
         end_time |-> end_time,
         timezone |-> req.timezone,
         agenda |-> IF req.agenda = <<>> THEN AgendaPrefix \o req.title ELSE req.agenda,
         meeting_type |-> req.meeting_type,
         effectiveness_score |-> 0]

CreateResponse(store, req, clock) ==
    LET new_meeting == NewMeeting(store, req, clock)
    IN  [op |-> "create_meeting",
         code |-> 200,
         status |-> "success",
         meeting |-> new_meeting,
         conflicts_detected |->
             CollectConflicts(store, new_meeting, req.participants, 1, clock)]

AppendMeetingMutPrepend(store, m) == <<m>> \o store

\* data["meetings"].append(new_meeting)
AppendMeeting(store, m) == Append(store, m)

CreateMeeting(req) ==
    /\ Len(meetings) < MaxMeetings
    /\ resp' = CreateResponse(meetings, req, now)
    /\ meetings' = AppendMeeting(meetings, resp'.meeting)
    /\ call' = Called("create_meeting", req, now)
    /\ UNCHANGED <<users, now, loaded, inflight>>

(***************************************************************************)
(* find_optimal_slots                                                      *)
(***************************************************************************)
\* current_time + timedelta(days=i+1, hours=9)
SlotStart(clock, i) == AddMinutes(NowNaive(clock), (i + 1) * DAY + 9 * HOUR)

ExampleSlotScoreMutFlat(i) == 10

\* "ai_score": 10 - i
ExampleSlotScore(i) == 10 - i

\* the slot built by iteration i of `for i in range(5)`
ExampleSlot(clock, duration, i) ==
    LET slot_start == SlotStart(clock, i)
        slot_end == AddMinutes(slot_start, duration)
    IN  [start_time |-> IsoFormat(slot_start),
         end_time |-> IsoFormat(slot_end),
         duration_minutes |-> duration,
         ai_score |-> ExampleSlotScore(i),
         recommended |-> i < 2]

FindOptimalSlotsResponse(req, clock) ==
    [op |-> "find_optimal_slots",
     code |-> 200,
     status |-> "success",
     optimal_slots |-> [n \in 1..5 |-> ExampleSlot(clock, req.duration, n - 1)],
     participants |-> req.participants,
     duration_minutes |-> req.duration]

FindOptimalSlots(req) ==
    /\ resp' = FindOptimalSlotsResponse(req, now)
    /\ call' = Called("find_optimal_slots", req, now)
    /\ UNCHANGED <<meetings, users, now, loaded, inflight>>

(***************************************************************************)
(* detect_scheduling_conflicts                                             *)
(***************************************************************************)
InRangeMutExclusive(m, start_time, end_time, clock) ==
    LET meeting_start == StartOf(m, clock)
        meeting_end == EndOf(m, clock)
    IN  \/ (start_time < meeting_start /\ meeting_start < end_time)
        \/ (start_time < meeting_end /\ meeting_end < end_time)
        \/ (meeting_start < start_time /\ start_time < meeting_end)

\* the three-way test of detect_scheduling_conflicts
InRange(m, start_time, end_time, clock) ==
    LET meeting_start == StartOf(m, clock)
        meeting_end == EndOf(m, clock)
    IN  \/ (start_time <= meeting_start /\ meeting_start <= end_time)
        \/ (start_time <= meeting_end /\ meeting_end <= end_time)
        \/ (meeting_start <= start_time /\ start_time <= meeting_end)

DetectResponse(store, req, clock) ==
    LET user_meetings == get_user_meetings(store, req.user_id)
        start_time == Instant(ParseDatetime(req.time_range[1], clock))
        end_time == Instant(ParseDatetime(req.time_range[2], clock))
        hits == SelectSeq(user_meetings,
                          LAMBDA m : InRange(m, start_time, end_time, clock))
        conflicts == [i \in 1..Len(hits) |->
                        [meeting_id |-> hits[i].id,
                         title |-> hits[i].title,
                         start_time |-> hits[i].start_time,
                         end_time |-> hits[i].end_time,
                         participants |-> hits[i].participants]]
    IN  [op |-> "detect_scheduling_conflicts",
         code |-> 200,
         status |-> "success",
         user_id |-> req.user_id,
         time_range |-> req.time_range,
         conflicts_found |-> Len(conflicts),
         conflicts |-> conflicts]

DetectSchedulingConflicts(req) ==
    /\ resp' = DetectResponse(meetings, req, now)
    /\ call' = Called("detect_scheduling_conflicts", req, now)
    /\ UNCHANGED <<meetings, users, now, loaded, inflight>>

(***************************************************************************)
(* score_meeting_effectiveness                                             *)
(***************************************************************************)
RECURSIVE FirstWithIdMutLast(_, _, _)
FirstWithIdMutLast(store, meeting_id, i) ==
    IF i > Len(store) THEN 0
    ELSE LET later == FirstWithIdMutLast(store, meeting_id, i + 1)
         IN  IF later > 0 THEN later
             ELSE IF store[i].id = meeting_id THEN i ELSE 0

RECURSIVE FirstWithId(_, _, _)
\* the index of the first meeting carrying the id, 0 when there is none
FirstWithId(store, meeting_id, i) ==
    IF i > Len(store) THEN 0
    ELSE IF store[i].id = meeting_id THEN i
    ELSE FirstWithId(store, meeting_id, i + 1)

DurationScore(duration) ==
    IF 30 <= duration /\ duration <= 60 THEN 10
    ELSE IF 15 <= duration /\ duration <= 90 THEN 7
    ELSE 4

ParticipantScore(participant_count) ==
    IF 3 <= participant_count /\ participant_count <= 8 THEN 10
    ELSE IF 2 <= participant_count /\ participant_count <= 12 THEN 7
    ELSE 4

TimeScore(hour) ==
    IF 9 <= hour /\ hour <= 17 THEN 10
    ELSE IF 8 <= hour /\ hour <= 18 THEN 7
    ELSE 4

\* type_scores.get(meeting_type, 6)
TypeScore(meeting_type) ==
    CASE meeting_type = "team_sync" -> 8
      [] meeting_type = "planning" -> 9
      [] meeting_type = "review" -> 8
      [] meeting_type = "workshop" -> 9
      [] meeting_type = "standup" -> 7
      [] meeting_type = "retrospective" -> 8
      [] meeting_type = "demo" -> 8
      [] meeting_type = "training" -> 7
      [] OTHER -> 6

AgendaScore(agenda) ==
    IF Len(agenda) > 20 THEN 10
    ELSE IF Len(agenda) > 10 THEN 7
    ELSE 4

\* the sub-scores of a meeting, historical_score only when the stored score > 0
Factors(m, clock) ==
    LET duration == EndOf(m, clock) - StartOf(m, clock)
        base == [duration_score |-> DurationScore(duration),
                 participant_score |-> ParticipantScore(Len(m.participants)),
                 time_score |-> TimeScore(HourOf(ParseDatetime(m.start_time, clock))),
                 type_score |-> TypeScore(m.meeting_type),
                 agenda_score |-> AgendaScore(m.agenda)]
    IN  IF m.effectiveness_score > 0
          THEN [f \in DOMAIN base \cup {"historical_score"} |->
                   IF f = "historical_score" THEN m.effectiveness_score ELSE base[f]]
          ELSE base

WeightedSumMutFullWeight(factors) ==
      factors.duration_score * 25
    + factors.participant_score * 20
    + factors.time_score * 20
    + factors.type_score * 25
    + factors.agenda_score * 10
    + Get(factors, "historical_score", 0) * 2

\* score, in hundredths: 0.2, 0.15, 0.15, 0.2, 0.1 of the integer sub-scores and
\* 0.2 of the stored score (itself in tenths)
WeightedSum(factors) ==
      factors.duration_score * 20
    + factors.participant_score * 15
    + factors.time_score * 15
    + factors.type_score * 20
    + factors.agenda_score * 10
    + Get(factors, "historical_score", 0) * 2

\* min(10, max(0, score)), in hundredths
FinalScore(score) == Min2(1000, Max2(0, score))

Suggestions(factors) ==
    (IF factors.duration_score < 7 THEN <<"duration">> ELSE <<>>)
    \o (IF factors.participant_score < 7 THEN <<"participants">> ELSE <<>>)
    \o (IF factors.time_score < 7 THEN <<"time">> ELSE <<>>)
    \o (IF factors.agenda_score < 7 THEN <<"agenda">> ELSE <<>>)

NotFoundResponse(endpoint) ==
    [op |-> endpoint, code |-> 404, status |-> "error", detail |-> "Meeting not found"]

ScoreResponse(store, req, clock) ==
    LET i == FirstWithId(store, req.meeting_id, 1)
    IN  IF i = 0 THEN NotFoundResponse("score_meeting_effectiveness")
        ELSE LET factors == Factors(store[i], clock)
             IN  [op |-> "score_meeting_effectiveness",
                  code |-> 200,
                  status |-> "success",
                  meeting_id |-> req.meeting_id,
                  meeting_title |-> store[i].title,
                  effectiveness_score |-> FinalScore(WeightedSum(factors)),
                  score_breakdown |-> factors,
                  improvement_suggestions |-> Suggestions(factors)]

ScoreMeetingEffectiveness(req) ==
    /\ resp' = ScoreResponse(meetings, req, now)
    /\ call' = Called("score_meeting_effectiveness", req, now)
    /\ UNCHANGED <<meetings, users, now, loaded, inflight>>

(***************************************************************************)
(* calculate_workload_balance                                              *)
(***************************************************************************)
RECURSIVE SumSeq(_, _)
SumSeq(s, i) == IF i > Len(s) THEN 0 ELSE s[i] + SumSeq(s, i + 1)

RECURSIVE MaxSeq(_, _)
\* max() of a non-empty sequence, from position i
MaxSeq(s, i) == IF i = Len(s) THEN s[i] ELSE Max2(s[i], MaxSeq(s, i + 1))

RECURSIVE MinSeq(_, _)
\* min() of a non-empty sequence, from position i
MinSeq(s, i) == IF i = Len(s) THEN s[i] ELSE Min2(s[i], MinSeq(s, i + 1))

RECURSIVE Dedup(_, _)
\* the keys of a dict filled in the order of s: first occurrences, in order
Dedup(s, i) ==
    IF i > Len(s) THEN <<>>
    ELSE IF \E j \in 1..(i - 1) : s[j] = s[i] THEN Dedup(s, i + 1)
    ELSE <<s[i]>> \o Dedup(s, i + 1)

\* sum of (end - start) in minutes over the meetings
TotalDuration(ms, clock) ==
    SumSeq([i \in 1..Len(ms) |-> EndOf(ms[i], clock) - StartOf(ms[i], clock)], 1)

MeetingDate(m, clock) == DateOf(ParseDatetime(m.start_time, clock))

\* max(daily_meetings.values()) if daily_meetings else 0
MaxDailyMeetings(ms, clock) ==
    IF Len(ms) = 0 THEN 0
    ELSE LET perDay == [i \in 1..Len(ms) |->
                          Cardinality({j \in 1..Len(ms) :
                              MeetingDate(ms[j], clock) = MeetingDate(ms[i], clock)})]
         IN  MaxSeq(perDay, 1)

\* user_prefs.get("meeting_preferences", {}).get("max_daily_meetings", 5) if user_prefs else 5
PreferenceLimit(us, user_id) ==
    LET user_prefs == get_user_preferences(us, user_id)
    IN  IF user_prefs.found
          THEN Get(Get(user_prefs.user, "meeting_preferences", [x \in {} |-> 0]),
                   "max_daily_meetings", 5)
          ELSE 5

\* total_meetings * 0.4 + total_duration * 0.01 + max_daily_meetings * 0.6, in hundredths
WorkloadScore(total_meetings, total_duration, max_daily_meetings) ==
    total_meetings * 40 + total_duration + max_daily_meetings * 60

MemberWorkload(store, us, member, clock) ==
    LET user_meetings == get_user_meetings(store, member)
        total_meetings == Len(user_meetings)
        total_duration == TotalDuration(user_meetings, clock)
        max_daily_meetings == MaxDailyMeetings(user_meetings, clock)
    IN  [total_meetings |-> total_meetings,
         total_duration_minutes |-> total_duration,
         average_daily_meetings |->
             [num |-> IF total_meetings > 0 THEN total_meetings ELSE 0, den |-> 30],
         max_daily_meetings |-> max_daily_meetings,
         workload_score |-> WorkloadScore(total_meetings, total_duration,
                                          max_daily_meetings),
         preference_limit |-> PreferenceLimit(us, member)]

\* an unhandled exception of a handler: FastAPI answers 500
ServerErrorResponse(endpoint, why) ==
    [op |-> endpoint, code |-> 500, status |-> "error", detail |-> why]

\* 1 - (max - min) / max raises ZeroDivisionError when max is 0
BalanceFails(workload_scores) ==
    Len(workload_scores) > 0 /\ MaxSeq(workload_scores, 1) = 0

\* 1 - (max - min) / max if workload_scores else 1, as the fraction num / den
BalanceScore(workload_scores) ==
    IF Len(workload_scores) = 0 THEN [num |-> 1, den |-> 1]
    ELSE LET hi == MaxSeq(workload_scores, 1)
             lo == MinSeq(workload_scores, 1)
         IN  [num |-> hi - (hi - lo), den |-> hi]

WorkloadResponse(store, us, req, clock) ==
    LET members == Dedup(req.team_members, 1)
        team_workload == [i \in 1..Len(members) |->
                             MemberWorkload(store, us, members[i], clock)]
        workload_scores == [i \in 1..Len(members) |-> team_workload[i].workload_score]
        total == SumSeq(workload_scores, 1)
        n == Len(workload_scores)
        \* score > avg * 1.2 and score < avg * 0.8 with avg = total / n
        overloaded == SelectSeq(members, LAMBDA u :
            LET i == CHOOSE j \in 1..n : members[j] = u
            IN  workload_scores[i] * n * 10 > total * 12)
        underutilized == SelectSeq(members, LAMBDA u :
            LET i == CHOOSE j \in 1..n : members[j] = u
            IN  workload_scores[i] * n * 10 < total * 8)
    IN  IF BalanceFails(workload_scores)
          THEN ServerErrorResponse("calculate_workload_balance", "ZeroDivisionError")
          ELSE [op |-> "calculate_workload_balance",
                code |-> 200,
                status |-> "success",
                team_members |-> req.team_members,
                members |-> members,
                workload_distribution |-> team_workload,
                balance_analysis |->
                    [average_workload |-> [num |-> total, den |-> Max2(n, 1)],
                     overloaded_members |-> overloaded,
                     underutilized_members |-> underutilized,
                     balance_score |-> BalanceScore(workload_scores)],
                well_balanced |-> ~(Len(overloaded) > 0 /\ Len(underutilized) > 0)]

CalculateWorkloadBalance(req) ==
    /\ resp' = WorkloadResponse(meetings, users, req, now)
    /\ call' = Called("calculate_workload_balance", req, now)
    /\ UNCHANGED <<meetings, users, now, loaded, inflight>>

(***************************************************************************)
(* analyze_meeting_patterns                                                *)
(***************************************************************************)
CountByMutPresence(s) == [key \in Range(s) |-> 1]

\* a dict of counts: key -> number of positions of s holding the key
CountBy(s) ==
    [key \in Range(s) |-> Cardinality({i \in 1..Len(s) : s[i] = key})]

AnalyzeResponse(store, req, clock) ==
    LET user_meetings == get_user_meetings(store, req.user_id)
        total_meetings == Len(user_meetings)
        total_duration == TotalDuration(user_meetings, clock)
        effectiveness_scores ==
            [i \in 1..total_meetings |-> user_meetings[i].effectiveness_score]
    IN  IF total_meetings = 0
          THEN [op |-> "analyze_meeting_patterns",
                code |-> 200,
                status |-> "success",
                user_id |-> req.user_id,
                message |-> "No meetings found for this user in the specified period"]
          ELSE [op |-> "analyze_meeting_patterns",
                code |-> 200,
                status |-> "success",
                user_id |-> req.user_id,
                patterns |->
                    [total_meetings |-> total_meetings,
                     total_duration_minutes |-> total_duration,
                     average_duration_minutes |->
                         [num |-> total_duration, den |-> total_meetings],
                     meeting_type_distribution |->
                         CountBy([i \in 1..total_meetings |->
                                     user_meetings[i].meeting_type]),
                     average_effectiveness_score |->
                         [num |-> SumSeq(effectiveness_scores, 1),
                          den |-> Len(effectiveness_scores)],
                     hour_distribution |->
                         CountBy([i \in 1..total_meetings |->
                             HourOf(ParseDatetime(user_meetings[i].start_time, clock))]),
                     high_effectiveness_meetings |->
                         Cardinality({i \in 1..total_meetings :
                                         effectiveness_scores[i] >= 80}),
                     low_effectiveness_meetings |->
                         Cardinality({i \in 1..total_meetings :
                                         effectiveness_scores[i] < 60})]]

AnalyzeMeetingPatterns(req) ==
    /\ resp' = AnalyzeResponse(meetings, req, now)
    /\ call' = Called("analyze_meeting_patterns", req, now)
    /\ UNCHANGED <<meetings, users, now, loaded, inflight>>

(***************************************************************************)
(* generate_agenda_suggestions                                             *)
(***************************************************************************)
RECURSIVE ParticipantMeetings(_, _, _)
\* participant_meetings: each participant's meetings, appended in turn
ParticipantMeetings(store, participants, i) ==
    IF i > Len(participants) THEN <<>>
    ELSE get_user_meetings(store, participants[i])
         \o ParticipantMeetings(store, participants, i + 1)

\* which of the four fixed lists of five items the topic selects
AgendaTemplate(meeting_topic) ==
    LET topic == Lower(meeting_topic)
    IN  IF Contains(topic, <<"p","l","a","n","n","i","n","g">>) THEN "planning"
        ELSE IF Contains(topic, <<"r","e","v","i","e","w">>) THEN "review"
        ELSE IF Contains(topic, <<"s","y","n","c">>) THEN "sync"
        ELSE "general"

AgendaResponse(store, req) ==
    LET participant_meetings == ParticipantMeetings(store, req.participants, 1)
        similar_meetings ==
            SelectSeq(participant_meetings,
                      LAMBDA m : Contains(Lower(m.title), Lower(req.meeting_topic)))
    IN  [op |-> "generate_agenda_suggestions",
         code |-> 200,
         status |-> "success",
         meeting_topic |-> req.meeting_topic,
         participants |-> req.participants,
         template |-> AgendaTemplate(req.meeting_topic),
         \* five fixed items, and two more when similar meetings exist
         n_agenda_suggestions |-> IF Len(similar_meetings) > 0 THEN 7 ELSE 5,
         ai_enhanced |-> TRUE,
         based_on_history |-> Len(similar_meetings)]

GenerateAgendaSuggestions(req) ==
    /\ resp' = AgendaResponse(meetings, req)
    /\ call' = Called("generate_agenda_suggestions", req, now)
    /\ UNCHANGED <<meetings, users, now, loaded, inflight>>

(***************************************************************************)
(* optimize_meeting_schedule                                               *)
(***************************************************************************)
\* The order of two start_time strings under Python's str comparison.  ISO
\* texts of the fixed layout YYYY-MM-DDTHH:MM:SS compare by wall clock, then
\* by suffix: none < "+hh:mm" < "-hh:mm" < "Z"; a text no parser accepts is
\* taken to start with a letter, which sorts after every digit.
SuffixRank(text) ==
    IF text.k = "isoz" THEN 3
    ELSE IF ~text.aware THEN 0
    ELSE IF text.off >= 0 THEN 1
    ELSE 2

TextLess(a, b) ==
    IF a.k = "bad" THEN FALSE
    ELSE IF b.k = "bad" THEN TRUE
    ELSE \/ a.wall < b.wall
         \/ a.wall = b.wall /\ SuffixRank(a) < SuffixRank(b)
         \/ /\ a.wall = b.wall
            /\ SuffixRank(a) = SuffixRank(b)
            /\ (IF a.off >= 0 THEN a.off ELSE -a.off) < (IF b.off >= 0 THEN b.off ELSE -b.off)

RECURSIVE InsertSorted(_, _)
\* m put after every element that is not greater than it
InsertSorted(sorted, m) ==
    IF Len(sorted) = 0 THEN <<m>>
    ELSE IF TextLess(m.start_time, sorted[Len(sorted)].start_time)
      THEN Append(InsertSorted(SubSeq(sorted, 1, Len(sorted) - 1), m),
                  sorted[Len(sorted)])
      ELSE Append(sorted, m)

RECURSIVE SortByStartText(_, _)
\* sorted(meetings, key=lambda m: m["start_time"]): stable, on the strings
SortByStartText(ms, n) ==
    IF n = 0 THEN <<>> ELSE InsertSorted(SortByStartText(ms, n - 1), ms[n])

SliceFromMutHead(s, k) == SubSeq(s, 1, Min2(Max2(k, 0), Len(s)))

\* s[k:]
SliceFrom(s, k) ==
    LET from == IF k >= 0 THEN k ELSE Max2(0, Len(s) + k)
    IN  SubSeq(s, from + 1, Len(s))

\* the "insufficient_break" records of one date
BreakRecs(day_meetings, date, clock) ==
    IF Len(day_meetings) <= 1 THEN <<>>
    ELSE LET sorted_meetings == SortByStartText(day_meetings, Len(day_meetings))
             close == SelectSeq([i \in 1..(Len(sorted_meetings) - 1) |-> i],
                        LAMBDA i :
                          (StartOf(sorted_meetings[i + 1], clock)
                             - EndOf(sorted_meetings[i], clock)) * 60 < 900)
         IN  [j \in 1..Len(close) |->
                 [type |-> "insufficient_break",
                  date |-> date,
                  meeting1 |-> sorted_meetings[close[j]].title,
                  meeting2 |-> sorted_meetings[close[j] + 1].title]]

RECURSIVE FlattenSeq(_, _)
FlattenSeq(ss, i) == IF i > Len(ss) THEN <<>> ELSE ss[i] \o FlattenSeq(ss, i + 1)

NonBusinessMutMinutes(m, clock) ==
    LET start_time == ParseDatetime(m.start_time, clock)
    IN  start_time.wall % DAY < 8 * HOUR \/ start_time.wall % DAY > 18 * HOUR

\* start_time.hour < 8 or start_time.hour > 18
NonBusiness(m, clock) ==
    LET hour == HourOf(ParseDatetime(m.start_time, clock))
    IN  hour < 8 \/ hour > 18

OptimizationScoreMutSwapped(n_overloaded_days, n_non_business_meetings) ==
    100 - n_overloaded_days * 10 - n_non_business_meetings * 20

\* 100, less 20 for each overloaded day and 10 for each non-business meeting
OptimizationScore(n_overloaded_days, n_non_business_meetings) ==
    100 - n_overloaded_days * 20 - n_non_business_meetings * 10

OptimizeResponse(store, us, req, clock) ==
    LET user_meetings == get_user_meetings(store, req.user_id)
        \* the keys of daily_meetings, in insertion order
        dates == Dedup([i \in 1..Len(user_meetings) |->
                           MeetingDate(user_meetings[i], clock)], 1)
        daily_meetings == [d \in 1..Len(dates) |->
            SelectSeq(user_meetings, LAMBDA m : MeetingDate(m, clock) = dates[d])]
        max_daily_limit == PreferenceLimit(us, req.user_id)
        overloaded_days ==
            SelectSeq([d \in 1..Len(dates) |-> d],
                      LAMBDA d : Len(daily_meetings[d]) > max_daily_limit)
        overloaded_recs ==
            [j \in 1..Len(overloaded_days) |->
                [type |-> "overloaded_day",
                 date |-> dates[overloaded_days[j]],
                 meeting_count |-> Len(daily_meetings[overloaded_days[j]]),
                 to_reschedule |->
                     Len(daily_meetings[overloaded_days[j]]) - max_daily_limit,
                 meetings_to_reschedule |->
                     LET rest == SliceFrom(daily_meetings[overloaded_days[j]],
                                           max_daily_limit)
                     IN  [i \in 1..Len(rest) |-> rest[i].title]]]
        break_recs ==
            FlattenSeq([d \in 1..Len(dates) |->
                           BreakRecs(daily_meetings[d], dates[d], clock)], 1)
        non_business_meetings ==
            SelectSeq(user_meetings, LAMBDA m : NonBusiness(m, clock))
        non_business_recs ==
            IF Len(non_business_meetings) > 0
              THEN <<[type |-> "non_business_hours",
                      meetings |-> [i \in 1..Len(non_business_meetings) |->
                                       non_business_meetings[i].title]]>>
              ELSE <<>>
        optimization_score ==
            OptimizationScore(Len(overloaded_days), Len(non_business_meetings))
    IN  IF Len(user_meetings) = 0
          THEN [op |-> "optimize_meeting_schedule",
                code |-> 200,
                status |-> "success",
                user_id |-> req.user_id,
                message |-> "No meetings found for optimization"]
          ELSE [op |-> "optimize_meeting_schedule",
                code |-> 200,
                status |-> "success",
                user_id |-> req.user_id,
                current_meeting_count |-> Len(user_meetings),
                optimization_score |-> Max2(0, optimization_score),
                recommendations |-> overloaded_recs \o break_recs \o non_business_recs,
                ai_insights |->
                    [schedule_efficiency |->
                         IF optimization_score >= 80 THEN "Good"
                         ELSE "Needs improvement",
                     workload_distribution |->
                         IF Len(overloaded_days) = 0 THEN "Balanced" ELSE "Unbalanced",
                     time_utilization |->
                         IF Len(non_business_meetings) = 0 THEN "Optimal"
                         ELSE "Suboptimal"]]

OptimizeMeetingSchedule(req) ==
    /\ resp' = OptimizeResponse(meetings, users, req, now)
    /\ call' = Called("optimize_meeting_schedule", req, now)
    /\ UNCHANGED <<meetings, users, now, loaded, inflight>>

(***************************************************************************)
(* find_available_slots                                                    *)
(***************************************************************************)
\* busy_times: for each participant in turn, the (start, end) of each of their
\* meetings whose start lies within [start_date, end_date]
BusyTimes(store, participants, start_date, end_date, clock) ==
    LET kept == SelectSeq(ParticipantMeetings(store, participants, 1),
                    LAMBDA m : /\ Instant(start_date) <= StartOf(m, clock)
                               /\ StartOf(m, clock) <= Instant(end_date))
    IN  [i \in 1..Len(kept) |->
            [busy_start |-> StartOf(kept[i], clock),
             busy_end |-> EndOf(kept[i], clock)]]

SlotConflictMutInclusive(current_time, slot_end, busy_times) ==
    \E i \in 1..Len(busy_times) :
        /\ Instant(current_time) <= busy_times[i].busy_end
        /\ Instant(slot_end) >= busy_times[i].busy_start

\* the inner loop: some busy interval overlaps [current_time, slot_end]
SlotConflict(current_time, slot_end, busy_times) ==
    \E i \in 1..Len(busy_times) :
        /\ Instant(current_time) < busy_times[i].busy_end
        /\ Instant(slot_end) > busy_times[i].busy_start

RECURSIVE ScanSlots(_, _, _, _)
\* the while loop from current_time on: the free candidates, in order
ScanSlots(current_time, duration, end_date, busy_times) ==
    LET slot_end == AddMinutes(current_time, duration)
    IN  IF ~(Instant(slot_end) <= Instant(end_date)) THEN <<>>
        ELSE (IF SlotConflict(current_time, slot_end, busy_times) THEN <<>>
              ELSE <<[start_time |-> IsoFormat(current_time),
                      end_time |-> IsoFormat(slot_end),
                      duration_minutes |-> duration]>>)
             \o ScanSlots(AddMinutes(current_time, HOUR), duration, end_date,
                          busy_times)

\* find_available_slots(participants, duration, date_range)
find_available_slots(store, participants, duration, date_range, clock) ==
    LET start_date == ParseDatetime(date_range[1], clock)
        end_date == ParseDatetime(date_range[2], clock)
        busy_times == BusyTimes(store, participants, start_date, end_date, clock)
        available_slots == ScanSlots(start_date, duration, end_date, busy_times)
    \* available_slots[:5]
    IN  SubSeq(available_slots, 1, Min2(5, Len(available_slots)))

\* one call of the helper on the store
FindAvailableSlots(req) ==
    /\ resp' = [op |-> "find_available_slots",
                slots |-> find_available_slots(meetings, req.participants,
                                               req.duration, req.date_range, now)]
    /\ call' = Called("find_available_slots", req, now)
    /\ UNCHANGED <<meetings, users, now, loaded, inflight>>

(***************************************************************************)
(* The process: fixture, requests, clock.                                  *)
(***************************************************************************)
TitleSync == <<"S","y","n","c">>

TitlePlan == <<"P","l","a","n">>

TitleA == <<"A">>

\* an agenda of 21 characters and one of 11
AgendaLong == AgendaPrefix \o <<"Q","1">>

AgendaShort == <<"R","e","v","i","e","w"," ","b","u","g","s">>

MeetingRecord(id, title, participants, start_time, end_time, agenda, meeting_type, score) ==
    [id |-> id,
     title |-> title,
     participants |-> participants,
     start_time |-> start_time,
     end_time |-> end_time,
     timezone |-> "UTC",
     agenda |-> agenda,
     meeting_type |-> meeting_type,
     effectiveness_score |-> score]

Request(title, participants, duration, start_time, agenda, meeting_type) ==
    [title |-> title,
     participants |-> participants,
     duration |-> duration,
     start_time |-> start_time,
     timezone |-> "UTC",
     agenda |-> agenda,
     meeting_type |-> meeting_type]

\* sample_content.json is not part of the sources: the fixture is an input.
\* Day 0, 09:00-10:00 and 10:00-11:00, are the hours the requests below meet.
FixtureSync(id) ==
    MeetingRecord(id, TitleSync, <<"alice", "bob">>,
                  Naive(At(0, 9, 0)), Naive(At(0, 10, 0)), AgendaLong, "team_sync", 85)

FixturePlan(id) ==
    MeetingRecord(id, TitlePlan, <<"alice">>,
                  Zulu(At(0, 10, 0)), Zulu(At(0, 11, 0)), AgendaShort, "planning", 0)

Fixtures ==
    { <<FixtureSync("m1")>>,
      <<FixtureSync("m1"), FixturePlan("m2")>>,
      <<FixturePlan("m2")>>,
      <<FixtureSync("standup-7")>> }

UserFixture ==
    << [user_id |-> "alice", meeting_preferences |-> [max_daily_meetings |-> 1]],
       [user_id |-> "bob", meeting_preferences |-> [x \in {} |-> 0]] >>

ClockStart == At(0, 8, 30)

TickMinutes == HOUR \div 2

CreateRequests ==
    { Request(TitleSync, <<"alice">>, 60, Naive(At(0, 9, 30)), <<>>, "general"),
      Request(TitlePlan, <<"alice", "alice">>, 30, NoneText, AgendaShort, "review"),
      Request(TitleA, <<"bob">>, 60, BadText, AgendaLong, "general"),
      Request(TitlePlan, <<"bob">>, -30, Aware(At(0, 10, 30), 60), <<>>, "demo"),
      Request(TitleSync, <<>>, 0, Zulu(At(0, 9, 30)), <<>>, "general") }

SlotRequests ==
    { [participants |-> p, duration |-> d, date_range |-> <<NoneText, NoneText>>] :
        p \in {<<>>, <<"alice", "bob">>}, d \in {60, -30} }

ConflictRequests ==
    { [user_id |-> u, time_range |-> r] :
        u \in {"alice", "carol"},
        r \in { <<Naive(At(0, 9, 15)), Naive(At(0, 9, 45))>>,
                <<Naive(At(0, 11, 0)), Naive(At(0, 9, 30))>>,
                <<BadText, EmptyText>> } }

ScoreRequests == { [meeting_id |-> i] : i \in {"m1", "m2", "m3", "m9"} }

WorkloadRequests ==
    { [team_members |-> t] :
        t \in { <<>>, <<"carol">>, <<"alice">>, <<"alice", "bob">>,
                <<"bob", "carol", "bob">> } }

PatternRequests == { [user_id |-> u, period |-> "last_month"] : u \in {"alice", "carol"} }

AgendaRequests ==
    { [meeting_topic |-> t, participants |-> p] :
        t \in {<<"s","y","n","c">>, <<"P","l","a","n","n","i","n","g">>},
        p \in {<<"alice", "bob">>} }

OptimizeRequests == { [user_id |-> u] : u \in {"alice", "carol"} }

\* load_data() at import, before any request
InitWith(fixtures) ==
    /\ meetings \in fixtures
    /\ users = UserFixture
    /\ now = ClockStart
    /\ resp = [op |-> "none"]
    /\ call = [op |-> "none"]
    /\ loaded = Len(meetings)
    /\ inflight = <<>>

Init == InitWith(Fixtures)

\* time passes between two requests
Tick ==
    /\ now < ClockStart + MaxTicks * TickMinutes
    /\ now' = now + TickMinutes
    /\ UNCHANGED <<meetings, users, resp, call, loaded, inflight>>

Next ==
    \/ \E req \in CreateRequests : CreateMeeting(req)
    \/ \E req \in SlotRequests : FindOptimalSlots(req)
    \/ \E req \in ConflictRequests : DetectSchedulingConflicts(req)
    \/ \E req \in PatternRequests : AnalyzeMeetingPatterns(req)
    \/ \E req \in AgendaRequests : GenerateAgendaSuggestions(req)
    \/ \E req \in WorkloadRequests : CalculateWorkloadBalance(req)
    \/ \E req \in ScoreRequests : ScoreMeetingEffectiveness(req)
    \/ \E req \in OptimizeRequests : OptimizeMeetingSchedule(req)
    \/ Tick

Spec == Init /\ [][Next]_vars

(***************************************************************************)
(* create_meeting against stores laid out on a half-hour grid.             *)
(***************************************************************************)
\* meeting A of the scenario: 09:00-10:00, one participant
MeetingA ==
    MeetingRecord("m1", TitleSync, <<"alice">>,
                  Naive(At(0, 9, 0)), Naive(At(0, 10, 0)), AgendaLong, "team_sync", 0)

GridSeconds ==
    { MeetingRecord("m2", TitlePlan, p, s, e, AgendaShort, "planning", 0) :
        p \in {<<"alice">>, <<"bob", "alice">>},
        s \in {Naive(At(0, 9, 30)), BadText},
        e \in {Naive(At(0, 9, 30)), Aware(At(0, 11, 30), 60)} }

GridFixtures == {<<MeetingA>>} \cup {<<MeetingA, m>> : m \in GridSeconds}

GridCreateRequests ==
    { Request(TitleA, p, d, s, <<>>, "general") :
        p \in {<<>>, <<"alice">>, <<"bob">>, <<"bob", "alice">>, <<"alice", "alice">>},
        d \in {60, 0, -30},
        s \in {Naive(At(0, 9, 0)), Naive(At(0, 9, 30)), Zulu(At(0, 10, 0)),
               NoneText, BadText} }

InitCreate == InitWith(GridFixtures)

NextCreate == \E req \in GridCreateRequests : CreateMeeting(req)

SpecCreate == InitCreate /\ [][NextCreate]_vars

(***************************************************************************)
(* check_time_conflict on pairs of meetings.                               *)
(***************************************************************************)
PairMeetings ==
    { MeetingRecord("m1", TitleA, <<"alice">>, s, e, <<>>, "general", 0) :
        s \in {Naive(At(0, 9, 0)), Naive(At(0, 9, 30)), Zulu(At(0, 10, 0)),
               Aware(At(0, 11, 0), 60), BadText},
        e \in {Naive(At(0, 9, 0)), Naive(At(0, 9, 30)), Aware(At(0, 10, 0), 0),
               Aware(At(0, 11, 30), 60)} }

InitOverlap == InitWith({<<a, [b EXCEPT !.id = "m2"]>> : a, b \in PairMeetings})

\* one call of check_time_conflict on two stored meetings, in both orders
CheckTimeConflict(i, j) ==
    /\ resp' = [op |-> "check_time_conflict",
                forward |-> check_time_conflict(meetings[i], meetings[j], now),
                backward |-> check_time_conflict(meetings[j], meetings[i], now)]
    /\ call' = Called("check_time_conflict", <<i, j>>, now)
    /\ UNCHANGED <<meetings, users, now, loaded, inflight>>

NextOverlap ==
    \/ \E i, j \in 1..Len(meetings) : CheckTimeConflict(i, j)
    \/ Tick

SpecOverlap == InitOverlap /\ [][NextOverlap]_vars

(***************************************************************************)
(* score_meeting_effectiveness over the factor thresholds.                 *)
(***************************************************************************)
People(n) == [i \in 1..n |-> IF i = 1 THEN "alice" ELSE "bob"]

Text(n) == [i \in 1..n |-> "x"]

ScoredFixtures ==
    { << MeetingRecord("m1", TitleSync, People(n), Naive(At(0, h, 0)),
                       Naive(At(0, h, 0) + d), Text(a), t, e) >> :
        n \in {1, 2, 3, 8, 12, 13},
        h \in {7, 8, 9, 17, 18, 19},
        d \in {-30, 0, 15, 30, 60, 90, 120},
        a \in {10, 11, 21},
        t \in {"planning", "standup", "general"},
        e \in {0, 85, 150} }

ScoredCreateRequests ==
    { Request(TitlePlan, <<"alice", "bob", "carol">>, 45, Naive(At(0, 9, 0)),
              <<>>, "planning") }

InitScore == InitWith(ScoredFixtures)

NextScore ==
    \/ \E req \in ScoredCreateRequests : CreateMeeting(req)
    \/ \E req \in ScoreRequests : ScoreMeetingEffectiveness(req)

SpecScore == InitScore /\ [][NextScore]_vars

(***************************************************************************)
(* detect_scheduling_conflicts over ranges on a quarter-hour grid.         *)
(***************************************************************************)
RangeMeetings ==
    { MeetingRecord("m1", TitleA, p, s, e, <<>>, "general", 0) :
        p \in {<<"alice">>, <<"bob">>},
        s \in {Naive(At(0, 9, 0)), Naive(At(0, 9, 30)), Naive(At(0, 10, 0)), BadText},
        e \in {Naive(At(0, 9, 30)), Naive(At(0, 10, 0)), Aware(At(0, 11, 30), 60)} }

RangeFixtures ==
    {<<>>} \cup {<<a>> : a \in RangeMeetings}
           \cup {<<a, [b EXCEPT !.id = "m2"]>> : a, b \in RangeMeetings}

RangePoints ==
    { Naive(At(0, 9, 0)), Naive(At(0, 9, 15)), Zulu(At(0, 9, 30)),
      Naive(At(0, 10, 0)), Aware(At(0, 11, 30), 60), BadText }

RangeRequests ==
    { [user_id |-> u, time_range |-> <<a, b>>] :
        u \in {"alice"}, a \in RangePoints, b \in RangePoints }

InitRange == InitWith(RangeFixtures)

NextRange == \E req \in RangeRequests : DetectSchedulingConflicts(req)

SpecRange == InitRange /\ [][NextRange]_vars

(***************************************************************************)
(* find_available_slots over ranges of a few hours.                        *)
(***************************************************************************)
SlotMeetings ==
    { MeetingRecord("m1", TitleA, p, se[1], se[2], <<>>, "general", 0) :
        p \in {<<"alice">>, <<"bob">>},
        se \in { <<Naive(At(0, 8, 30)), Naive(At(0, 9, 30))>>,
                 <<Naive(At(0, 10, 0)), Naive(At(0, 11, 0))>>,
                 <<Zulu(At(0, 10, 30)), Aware(At(0, 12, 30), 60)>>,
                 <<Naive(At(0, 12, 0)), Naive(At(0, 12, 0))>>,
                 <<BadText, Naive(At(0, 10, 0))>> } }

SlotFixtures ==
    {<<>>} \cup {<<a>> : a \in SlotMeetings}
           \cup {<<a, [b EXCEPT !.id = "m2"]>> : a, b \in SlotMeetings}

AvailableRequests ==
    { [participants |-> p, duration |-> d, date_range |-> r] :
        p \in {<<>>, <<"alice">>, <<"bob", "alice">>},
        d \in {60, 30, 90, 0, -240},
        r \in { <<Naive(At(0, 9, 0)), Naive(At(0, 13, 0))>>,
                <<Zulu(At(0, 9, 0)), Aware(At(0, 18, 0), 60)>>,
                <<Naive(At(0, 12, 0)), Naive(At(0, 9, 0))>>,
                <<BadText, Naive(At(0, 11, 0))>> } }

InitSlots == InitWith(SlotFixtures)

NextSlots ==
    \/ \E req \in AvailableRequests : FindAvailableSlots(req)
    \/ Tick

SpecSlots == InitSlots /\ [][NextSlots]_vars

(***************************************************************************)
(* optimize_meeting_schedule over days, hours and daily limits.            *)
(***************************************************************************)
\* the title of the meeting put at position i of a fixture
TitleAt(i) == <<"T", ToString(i)>>

PlannedStarts ==
    { Naive(At(0, 7, 59)), Naive(At(0, 8, 0)), Zulu(At(0, 18, 0)),
      Naive(At(0, 18, 30)), Aware(At(0, 19, 0), 60), Naive(At(1, 10, 0)) }

\* a meeting of 30 minutes at the given start
PlannedMeeting(i, participants, start_time) ==
    MeetingRecord(MeetingId(i), TitleAt(i), participants, start_time,
                  IsoFormat(AddMinutes(ParseDatetime(start_time, ClockStart), HOUR \div 2)),
                  <<>>, "general", 0)

\* seven meetings of bob on day 0, 09:00 to 15:00, each of 30 minutes
CrowdedDay ==
    [i \in 1..7 |-> PlannedMeeting(i, <<"bob">>, Naive(At(0, 8 + i, 0)))]

\* eleven meetings of bob at 06:00, two a day from day 0 on
EarlyDays ==
    [i \in 1..11 |-> PlannedMeeting(i, <<"bob">>, Naive(At((i - 1) \div 2, 6, 0)))]

\* up to three meetings, each of the whole team or of carol alone
PlannedFixtures ==
    LET team == <<"alice", "bob", "dave", "erin">>
        choices == (PlannedStarts \X {team}) \cup {<<Naive(At(0, 9, 0)), <<"carol">>>>}
    IN  {<<>>, CrowdedDay, EarlyDays}
          \cup { [i \in 1..n |-> PlannedMeeting(i, c[i][2], c[i][1])] :
                   n \in 1..3, c \in [1..3 -> choices] }

\* limits 1, 5 (setting absent), 0 and 2; carol has no record
PlannedUsers ==
    UserFixture \o
    << [user_id |-> "dave", meeting_preferences |-> [max_daily_meetings |-> 0]],
       [user_id |-> "erin", meeting_preferences |-> [max_daily_meetings |-> 2]] >>

PlannedRequests ==
    { [user_id |-> u] : u \in {"alice", "bob", "carol", "dave", "erin"} }

InitOptimize ==
    /\ meetings \in PlannedFixtures
    /\ users = PlannedUsers
    /\ now = ClockStart
    /\ resp = [op |-> "none"]
    /\ call = [op |-> "none"]
    /\ loaded = Len(meetings)
    /\ inflight = <<>>

NextOptimize == \E req \in PlannedRequests : OptimizeMeetingSchedule(req)

SpecOptimize == InitOptimize /\ [][NextOptimize]_vars

(***************************************************************************)
(* parse_datetime over the forms of a timestamp text.                      *)
(***************************************************************************)
ParseTexts ==
    LET walls == {At(d, h, 0) : d \in {0, 1}, h \in {0, 7, 9, 18, 23}}
        offsets == {-5 * HOUR, 0, HOUR, 5 * HOUR + HOUR \div 2}
    IN  {NoneText, EmptyText, BadText}
          \cup {Naive(w) : w \in walls}
          \cup {Zulu(w) : w \in walls}
          \cup {Aware(w, o) : w \in walls, o \in offsets}

\* one call of parse_datetime
ParseDatetimeCall(text) ==
    /\ resp' = [op |-> "parse_datetime", value |-> ParseDatetime(text, now)]
    /\ call' = Called("parse_datetime", text, now)
    /\ UNCHANGED <<meetings, users, now, loaded, inflight>>

InitParse == InitWith({<<>>})

NextParse ==
    \/ \E text \in ParseTexts : ParseDatetimeCall(text)
    \/ Tick

SpecParse == InitParse /\ [][NextParse]_vars

(***************************************************************************)
(* analyze_meeting_patterns over hours, durations, types and scores.       *)
(***************************************************************************)
PatternMeetings ==
    { MeetingRecord("m1", TitleA, <<"alice">>, s, IsoFormat(AddMinutes(ParseDatetime(s, ClockStart), d)),
                    <<>>, t, e) :
        s \in {Naive(At(0, 0, 0)), Naive(At(0, 9, 0)), Zulu(At(1, 23, 30))},
        d \in {-30, 0, 60},
        t \in {"planning", "general"},
        e \in {0, 59, 60, 79, 80} }

PatternFixtures ==
    LET seconds ==
          { MeetingRecord("m2", TitlePlan, p, s, Naive(At(0, 10, 0)), <<>>, "planning", e) :
              p \in {<<"alice", "bob">>, <<"bob">>},
              s \in {Naive(At(0, 9, 0)), BadText},
              e \in {0, 95} }
    IN  {<<>>} \cup {<<a>> : a \in PatternMeetings}
               \cup {<<a, b>> : a \in PatternMeetings, b \in seconds}

PatternCreateRequests ==
    { Request(TitleSync, <<"alice", "bob">>, 45, NoneText, <<>>, "general") }

PatternUsers == { [user_id |-> u, period |-> "last_month"] : u \in {"alice", "bob", "carol"} }

InitPatterns == InitWith(PatternFixtures)

NextPatterns ==
    \/ \E req \in PatternCreateRequests : CreateMeeting(req)
    \/ \E req \in PatternUsers : AnalyzeMeetingPatterns(req)
    \/ Tick

SpecPatterns == InitPatterns /\ [][NextPatterns]_vars

(***************************************************************************)
(* calculate_workload_balance on stores that create_meeting has built.     *)
(***************************************************************************)
WorkloadCreateRequests ==
    { Request(TitleA, p, d, s, <<>>, "general") :
        p \in {<<"bob">>, <<"alice", "bob">>},
        d \in {60, -200, -600},
        s \in {NoneText} }

TeamRequests ==
    { [team_members |-> t] :
        t \in {<<"bob">>, <<"alice", "bob">>, <<"alice", "bob", "carol">>} }

InitWorkload == InitWith({<<>>, <<FixtureSync("m1")>>})

NextWorkload ==
    \/ \E req \in WorkloadCreateRequests : CreateMeeting(req)
    \/ \E req \in TeamRequests : CalculateWorkloadBalance(req)

SpecWorkload == InitWorkload /\ [][NextWorkload]_vars

(***************************************************************************)
(* create_meeting step by step: calls served by different threads.         *)
(*                                                                         *)
(* A call reads len(data["meetings"]) and builds its record, then scans    *)
(* the store for conflicts, then appends and answers.  No lock is held, so *)
(* the steps of two calls may alternate.  `inflight` keeps one record per  *)
(* call: its position, its request and locals, and which calls had         *)
(* answered when it began.                                                 *)
(***************************************************************************)
InterleavedRequests ==
    { Request(TitleA, <<"alice">>, 60, Naive(At(0, 9, 30)), <<>>, "general"),
      Request(TitlePlan, <<"alice", "bob">>, 30, Naive(At(0, 10, 0)), <<>>, "planning") }

\* meeting_id, current_time and new_meeting are set
BeginCreate(req) ==
    /\ loaded + Len(inflight) < MaxMeetings
    /\ inflight' = Append(inflight,
          [pc |-> "scan",
           req |-> req,
           at |-> now,
           new_meeting |-> NewMeeting(meetings, req, now),
           conflicts |-> <<>>,
           after |-> {k \in 1..Len(inflight) : inflight[k].pc = "done"}])
    /\ UNCHANGED <<meetings, users, now, resp, call, loaded>>

\* the loop over the participants' meetings
ScanConflicts(k) ==
    /\ inflight[k].pc = "scan"
    /\ inflight' = [inflight EXCEPT
          ![k].pc = "append",
          ![k].conflicts = CollectConflicts(meetings, inflight[k].new_meeting,
                                            inflight[k].req.participants, 1,
                                            inflight[k].at)]
    /\ UNCHANGED <<meetings, users, now, resp, call, loaded>>

\* data["meetings"].append(new_meeting) and the answer
AppendAndReturn(k) ==
    /\ inflight[k].pc = "append"
    /\ meetings' = AppendMeeting(meetings, inflight[k].new_meeting)
    /\ resp' = [op |-> "create_meeting",
                code |-> 200,
                status |-> "success",
                meeting |-> inflight[k].new_meeting,
                conflicts_detected |-> inflight[k].conflicts]
    /\ call' = Called("create_meeting", inflight[k].req, inflight[k].at)
    /\ inflight' = [inflight EXCEPT ![k].pc = "done"]
    /\ UNCHANGED <<users, now, loaded>>

InitInterleaved == InitWith({<<>>, <<FixtureSync("m1")>>})

NextInterleaved ==
    \/ \E req \in InterleavedRequests : BeginCreate(req)
    \/ \E k \in 1..Len(inflight) : ScanConflicts(k)
    \/ \E k \in 1..Len(inflight) : AppendAndReturn(k)

SpecInterleaved == InitInterleaved /\ [][NextInterleaved]_vars

(***************************************************************************)
(* Properties.                                                             *)
(***************************************************************************)
IdsDistinct(store) ==
    \A i, j \in 1..Len(store) : i # j => store[i].id # store[j].id

\* the meetings load_data() read
Fixture == SubSeq(meetings, 1, loaded)

\* no fixture id is "m" + k for a k above the fixture's size
FixtureIdsClear ==
    \A i \in 1..loaded : \A k \in (loaded + 1)..(MaxMeetings + 1) :
        meetings[i].id # MeetingId(k)

\* every meeting made by create_meeting carries "m" + (the count before + 1)
CreatedIdsSequential ==
    /\ \A i \in (loaded + 1)..Len(meetings) : meetings[i].id = MeetingId(i)
    /\ call.op = "create_meeting" => resp.meeting.id = MeetingId(Len(meetings))

\* C1 as claimed: from a fixture whose ids are pairwise distinct, the ids of
\* all stored meetings stay pairwise distinct, and each created meeting gets
\* the id "m" + (number of meetings before the call + 1).
C1_DistinctFromDistinctFixture ==
    IdsDistinct(Fixture) => (IdsDistinct(meetings) /\ CreatedIdsSequential)

\* C1 amended: each created meeting gets the id "m" + (number of meetings
\* before the call + 1); the ids of all stored meetings are pairwise distinct
\* when the fixture's ids are pairwise distinct and none of them is "m" + k
\* for a k greater than the fixture's size.
C1_SequentialIds ==
    /\ CreatedIdsSequential
    /\ (IdsDistinct(Fixture) /\ FixtureIdsClear) => IdsDistinct(meetings)

\* two meetings were created on a fixture of distinct, non-sequential ids
C1_Witness ==
    /\ Len(meetings) = loaded + 2
    /\ IdsDistinct(Fixture) /\ FixtureIdsClear
    /\ \E i \in 1..loaded : meetings[i].id # MeetingId(i)
    /\ call.op = "create_meeting"

ReadEndpoints ==
    {"find_optimal_slots", "detect_scheduling_conflicts", "analyze_meeting_patterns",
     "generate_agenda_suggestions", "calculate_workload_balance",
     "score_meeting_effectiveness", "optimize_meeting_schedule"}

\* C2: a create_meeting call (also one that reports conflicts) lengthens the
\* meetings list by exactly one, puts the new record last and leaves every
\* earlier record as it was; the seven read endpoints leave the list
\* unchanged; no step changes the users list.
C2_AppendOnly ==
    [][ /\ users' = users
        /\ (call'.op = "create_meeting" /\ resp' # resp) =>
              /\ resp'.status = "success"
              /\ Len(meetings') = Len(meetings) + 1
              /\ meetings'[Len(meetings')] = resp'.meeting
              /\ SubSeq(meetings', 1, Len(meetings)) = meetings
        /\ call'.op \in ReadEndpoints => meetings' = meetings
        /\ meetings' # meetings => (call'.op = "create_meeting" /\ resp' # resp)
      ]_vars

\* a create_meeting call that reported conflicts has appended its record
C2_Witness ==
    /\ call.op = "create_meeting"
    /\ Len(resp.conflicts_detected) > 0
    /\ Len(meetings) = loaded + 2
    /\ meetings[Len(meetings)] = resp.meeting

\* the least index holding the id
LeastWithId(store, meeting_id) ==
    CHOOSE i \in 1..Len(store) :
        /\ store[i].id = meeting_id
        /\ \A j \in 1..(i - 1) : store[j].id # meeting_id

\* C7: score_meeting_effectiveness with an id no stored meeting carries
\* answers 404 and leaves the store unchanged; with the id of a stored
\* meeting (also one create_meeting has just returned) it succeeds, and the
\* result is that of the first meeting in store order carrying the id.
C7_ScoreLookup ==
    [][ call'.op = "score_meeting_effectiveness" =>
          /\ meetings' = meetings
          /\ users' = users
          /\ IF \E i \in 1..Len(meetings) : meetings[i].id = call'.req.meeting_id
               THEN LET m == meetings[LeastWithId(meetings, call'.req.meeting_id)]
                    IN  /\ resp'.code = 200
                        /\ resp'.status = "success"
                        /\ resp'.meeting_id = call'.req.meeting_id
                        /\ resp'.meeting_title = m.title
                        /\ resp'.score_breakdown = Factors(m, call'.at)
               ELSE resp'.code = 404
      ]_vars

\* the scored id is the one create_meeting gave out, and an earlier meeting
\* of another title carries it too: the answer is about the earlier one
C7_Witness ==
    /\ call.op = "score_meeting_effectiveness"
    /\ resp.code = 200
    /\ Len(meetings) > loaded
    /\ meetings[Len(meetings)].id = call.req.meeting_id
    /\ meetings[Len(meetings)].title # resp.meeting_title
    /\ \E i \in 1..loaded : /\ meetings[i].id = call.req.meeting_id
                            /\ meetings[i].title = resp.meeting_title

C9_SlotsAtNine ==
    call.op = "find_optimal_slots" =>
        \A i \in 1..5 :
            LET slot == resp.optimal_slots[i]
            IN  /\ slot.start_time.wall = (call.at \div DAY + i) * DAY + 9 * HOUR
                /\ slot.end_time.wall = slot.start_time.wall + call.req.duration

\* the requested members, once each
MembersOf(req) == Range(req.team_members)

\* the workload score of a member, read off the store
ScoreOf(member, clock) ==
    LET ms == get_user_meetings(meetings, member)
    IN  WorkloadScore(Len(ms), TotalDuration(ms, clock), MaxDailyMeetings(ms, clock))

\* C5 as claimed: calculate_workload_balance answers balance_score = 1,
\* without failing, when every requested member has zero meetings and when
\* the member list is empty; otherwise balance_score = 1 - (max - min) / max.
C5_BalanceOfIdleTeam ==
    call.op = "calculate_workload_balance" =>
        /\ resp.code = 200
        /\ LET scores == {ScoreOf(u, call.at) : u \in MembersOf(call.req)}
               b == resp.balance_analysis.balance_score
           IN  IF \A u \in MembersOf(call.req) :
                     Len(get_user_meetings(meetings, u)) = 0
                 THEN b.num = b.den
                 ELSE \E hi, lo \in scores :
                        /\ \A x \in scores : lo <= x /\ x <= hi
                        /\ b.num * hi = b.den * (hi - (hi - lo))
                        /\ b.den # 0

\* the store as it was before the create_meeting call that `call` records
StoreBefore == SubSeq(meetings, 1, Len(meetings) - 1)

\* the exclusive overlap of two stored intervals, on the instants
Overlap(a, b, clock) ==
    /\ StartOf(a, clock) < EndOf(b, clock)
    /\ StartOf(b, clock) < EndOf(a, clock)

\* one record per (participant occurrence, earlier meeting) pair that matches,
\* by participant occurrence and then by store position
ExpectedConflicts(before, candidate, participants, clock) ==
    LET n == Len(before)
        pairs == [k \in 1..(Len(participants) * n) |->
                     <<((k - 1) \div n) + 1, ((k - 1) % n) + 1>>]
        matching == SelectSeq(pairs, LAMBDA pr :
                        /\ participants[pr[1]] \in Range(before[pr[2]].participants)
                        /\ Overlap(candidate, before[pr[2]], clock))
    IN  [k \in 1..Len(matching) |->
            [participant |-> participants[matching[k][1]],
             conflicting_meeting |-> before[matching[k][2]].title,
             conflict_time |-> before[matching[k][2]].start_time]]

\* C3: conflicts_detected holds exactly one record for every pair of a
\* participant occurrence of the request and a meeting stored before the
\* call such that the participant is in the meeting and the candidate
\* overlaps it (exclusive test), ordered by participant occurrence and then
\* by store order, without dedup and never naming the candidate itself; a
\* candidate 10:00-11:00 against the 09:00-10:00 meeting of the same
\* participant yields no record and a candidate 09:30-10:30 exactly one.
C3_ConflictRecords ==
    call.op = "create_meeting" =>
        /\ resp.conflicts_detected =
              ExpectedConflicts(StoreBefore, resp.meeting, call.req.participants, call.at)
        /\ (/\ StoreBefore = <<MeetingA>>
            /\ "alice" \in Range(call.req.participants)
            /\ call.req.duration = 60
            /\ call.req.start_time = Zulu(At(0, 10, 0)))
              => resp.conflicts_detected = <<>>
        /\ (/\ StoreBefore = <<MeetingA>>
            /\ call.req.participants = <<"alice">>
            /\ call.req.duration = 60
            /\ call.req.start_time = Naive(At(0, 9, 30)))
              => Len(resp.conflicts_detected) = 1

\* a participant named twice, two earlier meetings of theirs overlapped:
\* four records, each meeting reported once per occurrence
C3_Witness ==
    /\ call.op = "create_meeting"
    /\ call.req.participants = <<"alice", "alice">>
    /\ Len(StoreBefore) = 2
    /\ Len(resp.conflicts_detected) = 4
    /\ resp.conflicts_detected[1].conflicting_meeting
         # resp.conflicts_detected[2].conflicting_meeting
    /\ resp.conflicts_detected[1] = resp.conflicts_detected[3]

\* C4: check_time_conflict is symmetric, is true exactly when
\* start(A) < end(B) and start(B) < end(A), and is false for two meetings
\* that only touch (end(A) = start(B)).
C4_OverlapSymmetric ==
    call.op = "check_time_conflict" =>
        LET a == meetings[call.req[1]]
            b == meetings[call.req[2]]
            startA == StartOf(a, call.at)
            endA == EndOf(a, call.at)
            startB == StartOf(b, call.at)
            endB == EndOf(b, call.at)
        IN  /\ resp.forward = resp.backward
            /\ resp.forward = (startA < endB /\ startB < endA)
            /\ endA = startB => ~resp.forward

\* two different meetings that touch, A ending where B starts, were compared
C4_Witness ==
    /\ call.op = "check_time_conflict"
    /\ call.req[1] # call.req[2]
    /\ EndOf(meetings[call.req[1]], call.at) = StartOf(meetings[call.req[2]], call.at)
    /\ StartOf(meetings[call.req[1]], call.at) < EndOf(meetings[call.req[1]], call.at)
    /\ StartOf(meetings[call.req[2]], call.at) < EndOf(meetings[call.req[2]], call.at)
    /\ ~resp.forward /\ ~resp.backward

\* C6: score_meeting_effectiveness answers a score within [0, 10] for every
\* stored meeting; every meeting made by create_meeting keeps the stored
\* score 0, and for a meeting whose stored score is 0 the breakdown has no
\* historical_score and the score is at most 8.0.
C6_ScoreRange ==
    /\ \A i \in (loaded + 1)..Len(meetings) : meetings[i].effectiveness_score = 0
    /\ (call.op = "score_meeting_effectiveness" /\ resp.code = 200) =>
          LET m == meetings[LeastWithId(meetings, call.req.meeting_id)]
          IN  /\ 0 <= resp.effectiveness_score
              /\ resp.effectiveness_score <= 1000
              /\ m.effectiveness_score = 0 =>
                    /\ "historical_score" \notin DOMAIN resp.score_breakdown
                    /\ resp.effectiveness_score <= 800

\* a meeting made by create_meeting was scored, with every factor at its
\* best value: 7.8, and no historical_score
C6_Witness ==
    /\ call.op = "score_meeting_effectiveness"
    /\ resp.code = 200
    /\ LeastWithId(meetings, call.req.meeting_id) > loaded
    /\ resp.effectiveness_score = 780
    /\ "historical_score" \notin DOMAIN resp.score_breakdown

\* the records detect_scheduling_conflicts is to return: the user's meetings
\* that satisfy `hit`, in store order
ExpectedInRange(user_id, hit(_)) ==
    LET chosen == SelectSeq(meetings, LAMBDA m :
                      user_id \in Range(m.participants) /\ hit(m))
    IN  [i \in 1..Len(chosen) |->
            [meeting_id |-> chosen[i].id,
             title |-> chosen[i].title,
             start_time |-> chosen[i].start_time,
             end_time |-> chosen[i].end_time,
             participants |-> chosen[i].participants]]

RangeStart == Instant(ParseDatetime(call.req.time_range[1], call.at))

RangeEnd == Instant(ParseDatetime(call.req.time_range[2], call.at))

StartsInRange(m) ==
    RangeStart <= StartOf(m, call.at) /\ StartOf(m, call.at) <= RangeEnd

EndsInRange(m) ==
    RangeStart <= EndOf(m, call.at) /\ EndOf(m, call.at) <= RangeEnd

SpanContainsRange(m) ==
    StartOf(m, call.at) <= RangeStart /\ RangeEnd <= EndOf(m, call.at)

SpanContainsRangeStart(m) ==
    StartOf(m, call.at) <= RangeStart /\ RangeStart <= EndOf(m, call.at)

\* C10 as claimed: for every range, also one with rangeStart > rangeEnd, the
\* result is, in store order, the user's meetings that start in the range,
\* end in the range, or whose span contains the whole range.
C10_RangeContained ==
    call.op = "detect_scheduling_conflicts" =>
        /\ resp.conflicts = ExpectedInRange(call.req.user_id,
              LAMBDA m : StartsInRange(m) \/ EndsInRange(m) \/ SpanContainsRange(m))
        /\ resp.conflicts_found = Len(resp.conflicts)

\* C10 amended: the same for every range with rangeStart <= rangeEnd; for a
\* range with rangeStart > rangeEnd the third condition is
\* start(m) <= rangeStart <= end(m), the first two being unsatisfiable.
C10_RangeStartContained ==
    call.op = "detect_scheduling_conflicts" =>
        /\ resp.conflicts = ExpectedInRange(call.req.user_id,
              LAMBDA m : \/ StartsInRange(m)
                         \/ EndsInRange(m)
                         \/ IF RangeStart <= RangeEnd THEN SpanContainsRange(m)
                            ELSE SpanContainsRangeStart(m))
        /\ resp.conflicts_found = Len(resp.conflicts)
        /\ resp.code = 200

\* a range given backwards found a meeting whose span holds its first bound
C10_Witness ==
    /\ call.op = "detect_scheduling_conflicts"
    /\ RangeStart > RangeEnd
    /\ Len(meetings) = 2
    /\ resp.conflicts_found = 1

\* the bounds of the range a find_available_slots call was given
SlotRangeStart == Instant(ParseDatetime(call.req.date_range[1], call.at))

SlotRangeEnd == Instant(ParseDatetime(call.req.date_range[2], call.at))

\* the stored meetings of the requested participants that start in the range
CollectedBusy ==
    { i \in 1..Len(meetings) :
        /\ Range(meetings[i].participants) \cap Range(call.req.participants) # {}
        /\ SlotRangeStart <= StartOf(meetings[i], call.at)
        /\ StartOf(meetings[i], call.at) <= SlotRangeEnd }

\* the exclusive overlap of [from, to] with a stored meeting
SlotOverlaps(from, to, m) == from < EndOf(m, call.at) /\ to > StartOf(m, call.at)

\* grid candidate k fits the range and overlaps no collected busy interval
FreeCandidate(k) ==
    LET from == SlotRangeStart + k * HOUR
        to == from + call.req.duration
    IN  /\ to <= SlotRangeEnd
        /\ \A i \in CollectedBusy : ~SlotOverlaps(from, to, meetings[i])

\* the last grid index whose candidate can still fit the range
LastCandidate ==
    Max2(0, (SlotRangeEnd - SlotRangeStart - call.req.duration) \div HOUR)

SlotFrom(slot) == Instant(ParseDatetime(slot.start_time, call.at))

SlotTo(slot) == Instant(ParseDatetime(slot.end_time, call.at))

\* C11: find_available_slots returns at most 5 slots; each starts at
\* rangeStart + k hours for an integer k >= 0, has length durationMinutes,
\* ends no later than rangeEnd and overlaps (exclusive test) none of the
\* collected busy intervals; the slots are in ascending start order and no
\* free grid candidate earlier than a returned slot is skipped.
C11_EarliestFreeCandidates ==
    call.op = "find_available_slots" =>
        /\ Len(resp.slots) <= 5
        /\ \A i \in 1..Len(resp.slots) :
              /\ \E k \in 0..LastCandidate :
                    /\ SlotFrom(resp.slots[i]) = SlotRangeStart + k * HOUR
                    /\ FreeCandidate(k)
              /\ resp.slots[i].duration_minutes = call.req.duration
              /\ SlotTo(resp.slots[i]) = SlotFrom(resp.slots[i]) + call.req.duration
              /\ SlotTo(resp.slots[i]) <= SlotRangeEnd
        /\ \A i, j \in 1..Len(resp.slots) :
              i < j => SlotFrom(resp.slots[i]) < SlotFrom(resp.slots[j])
        /\ \A k \in 0..LastCandidate :
              (/\ FreeCandidate(k)
               /\ \A i \in 1..Len(resp.slots) :
                     SlotFrom(resp.slots[i]) # SlotRangeStart + k * HOUR)
                 => /\ Len(resp.slots) = 5
                    /\ SlotFrom(resp.slots[5]) < SlotRangeStart + k * HOUR

\* five slots came back, a busy candidate lies between two of them and a
\* sixth free candidate was left out
C11_Witness ==
    /\ call.op = "find_available_slots"
    /\ Len(resp.slots) = 5
    /\ \E i \in 1..4 :
          SlotFrom(resp.slots[i + 1]) - SlotFrom(resp.slots[i]) > HOUR
    /\ \E k \in 0..LastCandidate :
          /\ FreeCandidate(k)
          /\ SlotFrom(resp.slots[5]) < SlotRangeStart + k * HOUR

\* C19 as claimed: no slot returned by find_available_slots overlaps
\* (exclusive test) any stored meeting of any requested participant, also a
\* meeting that starts before rangeStart and ends inside the range.
C19_SlotsAvoidAllMeetings ==
    call.op = "find_available_slots" =>
        \A i \in 1..Len(resp.slots) : \A j \in 1..Len(meetings) :
            Range(meetings[j].participants) \cap Range(call.req.participants) # {}
              => ~SlotOverlaps(SlotFrom(resp.slots[i]), SlotTo(resp.slots[i]),
                               meetings[j])

\* the positions in the store of the meetings of the user of the last call
UserPositions == {i \in 1..Len(meetings) : call.req.user_id \in Range(meetings[i].participants)}

\* the calendar date and the time of day (in minutes) a stored meeting starts at
StartDate(i) == ParseDatetime(meetings[i].start_time, call.at).wall \div DAY

StartMinuteOfDay(i) == ParseDatetime(meetings[i].start_time, call.at).wall % DAY

\* max_daily_meetings of the user, 5 when the user or the setting is absent
DailyLimit ==
    LET recs == {i \in 1..Len(users) :
                    /\ users[i].user_id = call.req.user_id
                    /\ "meeting_preferences" \in DOMAIN users[i]
                    /\ "max_daily_meetings" \in DOMAIN users[i].meeting_preferences}
    IN  IF recs = {} THEN 5
        ELSE users[CHOOSE i \in recs : TRUE].meeting_preferences.max_daily_meetings

\* the user's meetings of one date, as store positions
OnDate(d) == {i \in UserPositions : StartDate(i) = d}

OverloadedDates ==
    {d \in {StartDate(i) : i \in UserPositions} : Cardinality(OnDate(d)) > DailyLimit}

\* the titles of the meetings at the given store positions, in store order
TitlesOf(positions) ==
    LET chosen == SelectSeq([i \in 1..Len(meetings) |-> i], LAMBDA i : i \in positions)
    IN  [k \in 1..Len(chosen) |-> meetings[chosen[k]].title]

RecsOfType(type) == SelectSeq(resp.recommendations, LAMBDA r : r.type = type)

OutsideHours == {i \in UserPositions : StartMinuteOfDay(i) \div HOUR \notin 8..18}

\* C12: for a user with at least one meeting optimization_score is
\* max(0, 100 - 20*D - 10*N), D the number of dates over the user's daily
\* limit and N the number of non-business-hours meetings; it lies within
\* [0, 100], insufficient_break recommendations do not enter it, and
\* schedule_efficiency is "Good" iff the returned score is >= 80.
C12_OptimizationScore ==
    (call.op = "optimize_meeting_schedule" /\ UserPositions # {}) =>
        LET D == Cardinality(OverloadedDates)
            N == Len(IF RecsOfType("non_business_hours") = <<>> THEN <<>>
                     ELSE RecsOfType("non_business_hours")[1].meetings)
        IN  /\ resp.code = 200
            /\ N = Cardinality(OutsideHours)
            /\ resp.optimization_score = Max2(0, 100 - 20 * D - 10 * N)
            /\ resp.optimization_score \in 0..100
            /\ (resp.ai_insights.schedule_efficiency = "Good")
                  <=> (resp.optimization_score >= 80)
            /\ resp.ai_insights.schedule_efficiency \in {"Good", "Needs improvement"}

\* eleven early meetings, two a day: insufficient breaks are reported and the
\* score, 100 - 110, is floored at 0
C12_Witness ==
    /\ call.op = "optimize_meeting_schedule"
    /\ Cardinality(UserPositions) = 11
    /\ Len(RecsOfType("insufficient_break")) > 0
    /\ OverloadedDates = {}
    /\ resp.optimization_score = 0
    /\ resp.ai_insights.schedule_efficiency = "Needs improvement"

\* C13 as claimed: a meeting is listed in the non_business_hours
\* recommendation iff its start time of day is before 08:00 or after 18:00 at
\* minute resolution (18:30 is after 18:00); the recommendation is emitted iff
\* there is such a meeting.
C13_OutsideHoursByMinute ==
    (call.op = "optimize_meeting_schedule" /\ UserPositions # {}) =>
        LET outside == {i \in UserPositions :
                           \/ StartMinuteOfDay(i) < 8 * HOUR
                           \/ StartMinuteOfDay(i) > 18 * HOUR}
            recs == RecsOfType("non_business_hours")
        IN  /\ Len(recs) = (IF outside = {} THEN 0 ELSE 1)
            /\ outside # {} => recs[1].meetings = TitlesOf(outside)

\* C13 amended: a meeting is listed iff the hour of its start time of day is
\* below 8 or above 18, that is iff it starts before 08:00 or at or after
\* 19:00; the recommendation is emitted, once, iff there is such a meeting.
C13_OutsideHoursByHour ==
    (call.op = "optimize_meeting_schedule" /\ UserPositions # {}) =>
        LET outside == {i \in UserPositions :
                           \/ StartMinuteOfDay(i) < 8 * HOUR
                           \/ StartMinuteOfDay(i) >= 19 * HOUR}
            recs == RecsOfType("non_business_hours")
        IN  /\ Len(recs) = (IF outside = {} THEN 0 ELSE 1)
            /\ outside # {} => recs[1].meetings = TitlesOf(outside)

\* meetings at 07:59, 18:30 and 19:00 (wall clock): the first and the last
\* are listed, the one at 18:30 is not
C13_Witness ==
    /\ call.op = "optimize_meeting_schedule"
    /\ Cardinality(UserPositions) = 3
    /\ {StartMinuteOfDay(i) : i \in UserPositions}
          = {7 * HOUR + 59, 18 * HOUR + 30, 19 * HOUR}
    /\ Len(RecsOfType("non_business_hours")) = 1
    /\ Len(RecsOfType("non_business_hours")[1].meetings) = 2

\* C14: for every date on which the user has n meetings, n above the daily
\* limit, there is exactly one overloaded_day recommendation, and its
\* meetings_to_reschedule are the n - limit meetings of that date after the
\* first `limit` ones in store order; dates with n <= limit get none.  With
\* one date exceeded by two and no non-business meeting the score is 80.
C14_OverloadedDays ==
    (call.op = "optimize_meeting_schedule" /\ UserPositions # {}) =>
        LET recs == RecsOfType("overloaded_day")
        IN  /\ {recs[k].date : k \in 1..Len(recs)} = OverloadedDates
            /\ Len(recs) = Cardinality(OverloadedDates)
            /\ \A k \in 1..Len(recs) :
                  LET day == OnDate(recs[k].date)
                      excess == {i \in day :
                                    Cardinality({j \in day : j < i}) >= DailyLimit}
                  IN  /\ recs[k].meeting_count = Cardinality(day)
                      /\ recs[k].meetings_to_reschedule = TitlesOf(excess)
                      /\ Len(recs[k].meetings_to_reschedule)
                           = Cardinality(day) - DailyLimit
            /\ (/\ Cardinality(OverloadedDates) = 1
                /\ \A d \in OverloadedDates : Cardinality(OnDate(d)) = DailyLimit + 2
                /\ OutsideHours = {})
                  => resp.optimization_score = 80

\* the scenario: seven meetings on one day against the default limit of 5,
\* the sixth and the seventh are to be rescheduled, score 80
C14_Witness ==
    /\ call.op = "optimize_meeting_schedule"
    /\ DailyLimit = 5
    /\ Cardinality(UserPositions) = 7
    /\ Len(RecsOfType("overloaded_day")) = 1
    /\ RecsOfType("overloaded_day")[1].meetings_to_reschedule = <<TitleAt(6), TitleAt(7)>>
    /\ resp.optimization_score = 80

\* C15 as claimed: create_meeting succeeds for every duration and every
\* start_time, and the record it appended satisfies, whenever it is read
\* later, parse(end_time) = parse(start_time) + duration minutes.
C15_EndIsStartPlusDuration ==
    call.op = "create_meeting" =>
        /\ resp.code = 200
        /\ LET m == meetings[Len(meetings)]
           IN  EndOf(m, now) = StartOf(m, now) + call.req.duration

\* C16: parse_datetime returns a timezone-aware instant for every input; a
\* text without a timezone is read as UTC, a text with an offset or a Z keeps
\* it, and absent, empty or unparseable input gives the current instant in
\* UTC.
C16_ParseNeverFails ==
    call.op = "parse_datetime" =>
        LET text == call.req
            value == resp.value
        IN  /\ value.aware
            /\ text.k \in {"none", "empty", "bad"} =>
                  value = [wall |-> call.at, off |-> 0, aware |-> TRUE]
            /\ text.k = "isoz" => (value.wall = text.wall /\ value.off = 0)
            /\ (text.k = "iso" /\ text.aware) =>
                  (value.wall = text.wall /\ value.off = text.off)
            /\ (text.k = "iso" /\ ~text.aware) =>
                  (value.wall = text.wall /\ value.off = 0)

\* a naive text was parsed: the value carries UTC and the same wall clock
C16_Witness ==
    /\ call.op = "parse_datetime"
    /\ call.req.k = "iso"
    /\ ~call.req.aware
    /\ now > ClockStart
    /\ resp.value = [wall |-> call.req.wall, off |-> 0, aware |-> TRUE]

RECURSIVE SumValues(_, _)
\* the sum of the values a dict holds under the given keys
SumValues(dict, keys) ==
    IF keys = {} THEN 0
    ELSE LET key == CHOOSE k \in keys : TRUE
         IN  dict[key] + SumValues(dict, keys \ {key})

RECURSIVE SumOver(_, _)
\* the sum of value(i) over the positions i
SumOver(value(_), positions) ==
    IF positions = {} THEN 0
    ELSE LET i == CHOOSE k \in positions : TRUE
         IN  value(i) + SumOver(value, positions \ {i})

\* C17: analyze_meeting_patterns for a user without meetings answers the
\* "no data" message; for a user with n >= 1 meetings it answers
\* total_meetings = n, average duration = total duration / n, the average
\* effectiveness over all n meetings (zero scores included), type counts
\* that sum to n, hour-of-day counts (keys within 0..23) that sum to n, and
\* high (>= 8) plus low (< 6) counts that do not exceed n.
C17_PatternSummary ==
    call.op = "analyze_meeting_patterns" =>
        /\ resp.code = 200
        /\ resp.status = "success"
        /\ IF UserPositions = {}
             THEN "message" \in DOMAIN resp /\ "patterns" \notin DOMAIN resp
             ELSE LET n == Cardinality(UserPositions)
                      p == resp.patterns
                      Length(i) == EndOf(meetings[i], call.at) - StartOf(meetings[i], call.at)
                      Stored(i) == meetings[i].effectiveness_score
                  IN  /\ p.total_meetings = n
                      /\ p.total_duration_minutes = SumOver(Length, UserPositions)
                      /\ p.average_duration_minutes.den # 0
                      /\ p.average_duration_minutes.num * n
                           = p.total_duration_minutes * p.average_duration_minutes.den
                      /\ p.average_effectiveness_score.den # 0
                      /\ p.average_effectiveness_score.num * n
                           = SumOver(Stored, UserPositions)
                               * p.average_effectiveness_score.den
                      /\ DOMAIN p.meeting_type_distribution
                           = {meetings[i].meeting_type : i \in UserPositions}
                      /\ SumValues(p.meeting_type_distribution,
                                   DOMAIN p.meeting_type_distribution) = n
                      /\ DOMAIN p.hour_distribution
                           = {StartMinuteOfDay(i) \div HOUR : i \in UserPositions}
                      /\ DOMAIN p.hour_distribution \subseteq 0..23
                      /\ SumValues(p.hour_distribution, DOMAIN p.hour_distribution) = n
                      /\ p.high_effectiveness_meetings
                           = Cardinality({i \in UserPositions : Stored(i) >= 80})
                      /\ p.low_effectiveness_meetings
                           = Cardinality({i \in UserPositions : Stored(i) < 60})
                      /\ p.high_effectiveness_meetings + p.low_effectiveness_meetings <= n

\* three meetings, one made by create_meeting: one high, one in between and
\* one of score zero that still counts in the average; two share a type
C17_Witness ==
    /\ call.op = "analyze_meeting_patterns"
    /\ Cardinality(UserPositions) = 3
    /\ Len(meetings) > loaded
    /\ resp.patterns.high_effectiveness_meetings = 1
    /\ resp.patterns.low_effectiveness_meetings = 1
    /\ resp.patterns.average_effectiveness_score.den = 3
    /\ Cardinality(DOMAIN resp.patterns.meeting_type_distribution) = 2
    /\ \E i \in UserPositions : EndOf(meetings[i], call.at) < StartOf(meetings[i], call.at)

\* C20 as claimed: in every result of calculate_workload_balance, on every
\* store create_meeting can build, no team member is listed both as
\* overloaded and as underutilized, and balance_score lies within [0, 1].
C20_BalanceWithinBounds ==
    (call.op = "calculate_workload_balance" /\ resp.code = 200) =>
        LET b == resp.balance_analysis
        IN  /\ Range(b.overloaded_members) \cap Range(b.underutilized_members) = {}
            /\ IF b.balance_score.den > 0
                 THEN 0 <= b.balance_score.num /\ b.balance_score.num <= b.balance_score.den
                 ELSE b.balance_score.den <= b.balance_score.num /\ b.balance_score.num <= 0

\* the calls that have answered
Answered == {k \in 1..Len(inflight) : inflight[k].pc = "done"}

\* every call began after all the calls before it had answered
Serial == \A k \in 1..Len(inflight) : inflight[k].after = 1..(k - 1)

\* the meetings of two calls share a participant and overlap
Clash(a, b) ==
    /\ Range(inflight[a].new_meeting.participants)
         \cap Range(inflight[b].new_meeting.participants) # {}
    /\ Overlap(inflight[a].new_meeting, inflight[b].new_meeting, now)

\* call a answered with a conflict record for the meeting of call b
Reported(a, b) ==
    \E i \in 1..Len(inflight[a].conflicts) :
        /\ inflight[a].conflicts[i].conflicting_meeting = inflight[b].new_meeting.title
        /\ inflight[a].conflicts[i].conflict_time = inflight[b].new_meeting.start_time

\* two answered calls stored clashing meetings under one id and neither
\* reported the other's
SilentDuplicate ==
    \E a, b \in Answered :
        /\ a # b
        /\ inflight[a].new_meeting.id = inflight[b].new_meeting.id
        /\ Clash(a, b)
        /\ ~Reported(a, b)
        /\ ~Reported(b, a)

\* C18: when each create_meeting call runs to completion before the next
\* starts, from a fixture with ids m1..mN, the stored ids stay distinct and
\* a later call reports every clashing meeting an earlier call stored, so no
\* state holds two clashing meetings with one id and no report; only calls
\* whose steps interleave reach such a state.
C18_SerialCallsNeverDuplicate ==
    /\ Serial =>
          /\ IdsDistinct(meetings)
          /\ \A a, b \in Answered : (a < b /\ Clash(a, b)) => Reported(b, a)
          /\ ~SilentDuplicate
    /\ SilentDuplicate =>
          \E a, b \in Answered : a < b /\ a \notin inflight[b].after

\* two calls interleaved: both read the length before either appended and
\* both scanned before either appended; their meetings clash, carry the same
\* id and neither answer names the other
C18_Witness ==
    /\ SilentDuplicate
    /\ ~Serial
    /\ ~IdsDistinct(meetings)
    /\ Len(meetings) = loaded + 2

====
